---- MODULE Spec2Model ----
\* Model of the Layercode voice demo: the webhook event router and its
\* conversation store (app/api/agent/route.ts) and the client transcript
\* reassembler (components/VoiceAgentDemo.tsx).
EXTENDS Integers, Sequences, FiniteSets, TLC

\* ---------------------------------------------------------------- bounds
MaxEvents == 2      \* webhook events received in one run
MaxGen == 2         \* assistant messages in one generation response
MaxCalls == 4       \* store calls issued by the store driver in one run
MaxClientEvents == 3 \* events delivered to the client in one run
MaxAuthRequests == 3 \* requests received by the authorization endpoint in one run

\* ------------------------------------------------------------- constants
CONVERSATION_TTL_SECONDS == 60 * 60 * 12
NoTtl == -1         \* a key without expiry (what TTL reports for it)
WELCOME_MESSAGE == "welcome"

Slots == {1, 2}                     \* webhook invocations that may be in flight together
Keys == {"c1", "c2"}                \* conversation identifiers the store is called with
Convs == {"c1"}                     \* conversation identifiers of the webhook events
Texts == {"hi"}                     \* event texts
KnownTypes == {"session.start", "message", "session.end", "session.update"}
EventTypes == KnownTypes \cup {"bogus"}
GenErrors == {"insufficient_balance: top up", "upstream failure"}

VARIABLES
  isKvConfigured,         \* route.ts:69
  apiKeySet,              \* process.env.OPENAI_API_KEY is set (route.ts:61)
  inMemoryConversations,  \* route.ts:70
  kvWarningShown,         \* route.ts:71
  warnings,               \* number of console.warn calls (route.ts:78)
  kvList,                 \* the durable backend's list per conversation key
  kvTtl,                  \* the durable backend's time-to-live per conversation key
  kvCalls,                \* number of durable-backend primitives invoked
  inv,                    \* the webhook invocations, one record per slot
  nEvents,                \* webhook events received so far
  uuidCount,              \* identifiers handed out by crypto.randomUUID
  drv,                    \* the store driver: the last store call and its result
  messages,               \* VoiceAgentDemo.tsx:166, the display list
  isSessionActive,        \* VoiceAgentDemo.tsx:167
  userChunksByTurn,       \* VoiceAgentDemo.tsx:169
  status,                 \* the connection status the agent hook reports
  nClient,                \* events delivered to the client so far
  recv,                   \* per turn, the deltas delivered since its buffer was last cleared
  lastEvent,              \* the event handleAgentMessage handled last (history only)
  ended,                  \* per ended turn, the deltas its last turn.end discarded (history only)
  layercodeApiKeySet,     \* process.env.LAYERCODE_API_KEY is set (authorize/route.ts:36)
  auth,                   \* the authorization requests, one record per slot
  nAuth                   \* authorization requests received so far

storeVars == <<inMemoryConversations, kvWarningShown, warnings, kvList, kvTtl, kvCalls>>
envVars == <<isKvConfigured, apiKeySet, layercodeApiKeySet>>
authVars == <<auth, nAuth>>
clientVars == <<messages, isSessionActive, userChunksByTurn, status, nClient, recv,
                lastEvent, ended>>
serverVars == <<inMemoryConversations, kvWarningShown, warnings, kvList, kvTtl, kvCalls,
                inv, nEvents, uuidCount, drv>>
vars == <<isKvConfigured, apiKeySet, inMemoryConversations, kvWarningShown, warnings,
          kvList, kvTtl, kvCalls, inv, nEvents, uuidCount, drv,
          messages, isSessionActive, userChunksByTurn, status, nClient, recv,
          lastEvent, ended, layercodeApiKeySet, auth, nAuth>>

\* ------------------------------------------------------------ the store

conversationKey(conversationId) == conversationId

JSONstringify(message) == [json |-> message]

\* the read path without JSON.parse: the stored entries are returned as they are
JSONparse_Raw(entry) == entry

\* route.ts:89
JSONparse(entry) == entry.json

\* warnAboutKvFallback that forgets to set kvWarningShown
warnAboutKvFallback_NoFlag ==
  IF isKvConfigured \/ kvWarningShown
    THEN UNCHANGED <<kvWarningShown, warnings>>
    ELSE kvWarningShown' = kvWarningShown /\ warnings' = warnings + 1

\* route.ts:75-79
warnAboutKvFallback ==
  IF isKvConfigured \/ kvWarningShown
    THEN UNCHANGED <<kvWarningShown, warnings>>
    ELSE kvWarningShown' = TRUE /\ warnings' = warnings + 1

\* the value getConversationMessages returns
getConversationMessages(conversationId) ==
  IF ~isKvConfigured
    THEN inMemoryConversations[conversationId]
    ELSE LET stored == kvList[conversationKey(conversationId)]
         IN IF Len(stored) = 0 THEN <<>> ELSE [i \in 1..Len(stored) |-> JSONparse(stored[i])]

\* what getConversationMessages does to the store state
GetEffect ==
  IF ~isKvConfigured
    THEN warnAboutKvFallback /\ UNCHANGED <<inMemoryConversations, kvList, kvTtl, kvCalls>>
    ELSE kvCalls' = kvCalls + 1
         /\ UNCHANGED <<inMemoryConversations, kvWarningShown, warnings, kvList, kvTtl>>

\* appendConversationMessages without the early return for no messages
AppendFirst_NoEmptyGuard(conversationId, newMessages) ==
  IF ~isKvConfigured
    THEN /\ warnAboutKvFallback
         /\ inMemoryConversations' =
              [inMemoryConversations EXCEPT ![conversationId] = @ \o newMessages]
         /\ UNCHANGED <<kvList, kvTtl, kvCalls>>
    ELSE /\ kvList' = [kvList EXCEPT ![conversationKey(conversationId)] =
                         @ \o [i \in 1..Len(newMessages) |-> JSONstringify(newMessages[i])]]
         /\ kvCalls' = kvCalls + 1
         /\ UNCHANGED <<inMemoryConversations, kvWarningShown, warnings, kvTtl>>

\* appendConversationMessages up to its first await (or its return)
AppendFirst(conversationId, newMessages) ==
  IF Len(newMessages) = 0
    THEN UNCHANGED storeVars
    ELSE IF ~isKvConfigured
      THEN /\ warnAboutKvFallback
           /\ inMemoryConversations' =
                [inMemoryConversations EXCEPT ![conversationId] = @ \o newMessages]
           /\ UNCHANGED <<kvList, kvTtl, kvCalls>>
      ELSE /\ kvList' = [kvList EXCEPT ![conversationKey(conversationId)] =
                           @ \o [i \in 1..Len(newMessages) |-> JSONstringify(newMessages[i])]]
           /\ kvCalls' = kvCalls + 1
           /\ UNCHANGED <<inMemoryConversations, kvWarningShown, warnings, kvTtl>>

\* appendConversationMessages goes on to kv.expire after kv.rpush
AppendAwaitsExpire(newMessages) == Len(newMessages) # 0 /\ isKvConfigured

\* kv.expire(key, ttl): sets the expiry of an existing key, nothing for a missing one
AppendExpire(conversationId) ==
  /\ kvTtl' = [kvTtl EXCEPT ![conversationKey(conversationId)] =
                 IF Len(kvList[conversationKey(conversationId)]) = 0
                   THEN NoTtl ELSE CONVERSATION_TTL_SECONDS]
  /\ kvCalls' = kvCalls + 1
  /\ UNCHANGED <<inMemoryConversations, kvWarningShown, warnings, kvList>>

\* resetConversationMessages whose in-memory branch forgets the delete
reset_NoMemoryDelete(conversationId) ==
  IF ~isKvConfigured
    THEN /\ warnAboutKvFallback
         /\ UNCHANGED <<inMemoryConversations, kvList, kvTtl, kvCalls>>
    ELSE /\ kvList' = [kvList EXCEPT ![conversationKey(conversationId)] = <<>>]
         /\ kvTtl' = [kvTtl EXCEPT ![conversationKey(conversationId)] = NoTtl]
         /\ kvCalls' = kvCalls + 1
         /\ UNCHANGED <<inMemoryConversations, kvWarningShown, warnings>>

\* route.ts:105-112
resetConversationMessages(conversationId) ==
  IF ~isKvConfigured
    THEN /\ warnAboutKvFallback
         /\ inMemoryConversations' = [inMemoryConversations EXCEPT ![conversationId] = <<>>]
         /\ UNCHANGED <<kvList, kvTtl, kvCalls>>
    ELSE /\ kvList' = [kvList EXCEPT ![conversationKey(conversationId)] = <<>>]
         /\ kvTtl' = [kvTtl EXCEPT ![conversationKey(conversationId)] = NoTtl]
         /\ kvCalls' = kvCalls + 1
         /\ UNCHANGED <<inMemoryConversations, kvWarningShown, warnings>>

\* the conversation log a caller of the store observes
Log(conversationId) == getConversationMessages(conversationId)

\* ------------------------------------------------- the webhook handler
\* JavaScript runs a handler to completion between two awaits, so one action is
\* the code from one await to the next; each store primitive takes effect in
\* one step of its own, between the call and the resumption of the caller.

NoBody == [conversation_id |-> "none", text |-> "", turn_id |-> "none", type |-> "none"]

IdleInv ==
  [pc |-> "idle", requestBody |-> NoBody, isValid |-> FALSE, ev |-> 0,
   existingMessages |-> <<>>, status |-> 0, failure |-> "none",
   streamOpened |-> FALSE, streamEnds |-> 0, ttsCalls |-> 0,
   genCalls |-> 0, conversationForModel |-> <<>>, generatedMessages |-> <<>>,
   trace |-> <<>>, overlap |-> FALSE, resetSeen |-> FALSE, logAtStart |-> 0,
   resetDuring |-> FALSE]

\* the platform names every turn differently: the n-th event carries turn "t<n>"
TurnIdOf(n) == "t" \o ToString(n)

Bodies(n) == [conversation_id : Convs, text : Texts, turn_id : {TurnIdOf(n)}, type : EventTypes]

InFlight(s) == inv[s].pc \notin {"idle", "done"}
ConvOf(s) == inv[s].requestBody.conversation_id

\* a user Message that carries a fresh identifier in place of the turn identifier
userMessage_FreshId(r) ==
  [id |-> "uuid0", role |-> "user",
   conversation_id |-> r.requestBody.conversation_id, text |-> r.requestBody.text,
   ev |-> r.ev]

\* route.ts:138-143; ev tags the message with the event that produced it (history only)
userMessage(r) ==
  [id |-> r.requestBody.turn_id, role |-> "user",
   conversation_id |-> r.requestBody.conversation_id, text |-> r.requestBody.text,
   ev |-> r.ev]

\* route.ts:150-155
welcomeMessage(r) ==
  [id |-> r.requestBody.turn_id, role |-> "assistant",
   conversation_id |-> r.requestBody.conversation_id, text |-> WELCOME_MESSAGE,
   ev |-> r.ev]

\* generated messages that carry the turn identifier of the event as their id
generatedMessagesOf_TurnId(r, k) ==
  [i \in 1..k |->
     [id |-> r.requestBody.turn_id, role |-> "assistant",
      conversation_id |-> r.requestBody.conversation_id, text |-> "generated",
      ev |-> r.ev]]

\* route.ts:176-185: the k assistant messages of the response, each with a fresh uuid
generatedMessagesOf(r, k) ==
  [i \in 1..k |->
     [id |-> "uuid" \o ToString(uuidCount + i), role |-> "assistant",
      conversation_id |-> r.requestBody.conversation_id, text |-> "generated",
      ev |-> r.ev]]

\* Verify without the signature check
Verify_SkipSignature(r) ==
  [r EXCEPT !.pc = IF r.requestBody.type = "session.start" THEN "reset" ELSE "get"]

\* Verify without the reset of session.start
Verify_NoReset(r) ==
  IF ~r.isValid
    THEN [r EXCEPT !.pc = "done", !.status = 401]
    ELSE [r EXCEPT !.pc = "get"]

\* route.ts:119-134: the signature check and the branch on session.start
Verify(r) ==
  IF ~r.isValid
    THEN [r EXCEPT !.pc = "done", !.status = 401]
    ELSE [r EXCEPT !.pc = IF r.requestBody.type = "session.start" THEN "reset" ELSE "get"]

\* route.ts:114-134: a request arrives, its body is read and its signature checked
Receive(s, body, valid) ==
  /\ inv[s].pc \in {"idle", "done"}
  /\ \A t \in Slots : t < s => InFlight(t)
  /\ nEvents < MaxEvents
  /\ nEvents' = nEvents + 1
  /\ LET others == {t \in Slots \ {s} : InFlight(t) /\ ConvOf(t) = body.conversation_id}
     IN inv' = [t \in Slots |->
                  IF t = s
                    THEN Verify([IdleInv EXCEPT !.pc = "verify", !.requestBody = body,
                                                !.isValid = valid, !.ev = nEvents + 1,
                                                !.overlap = (others # {}),
                                                !.logAtStart = Len(Log(body.conversation_id))])
                    ELSE IF t \in others THEN [inv[t] EXCEPT !.overlap = TRUE]
                         ELSE inv[t]]
  /\ UNCHANGED <<envVars, authVars, storeVars, uuidCount, drv, clientVars>>

\* route.ts:133; resetDuring marks every invocation of the conversation received
\* before this reset (history only)
ResetStep(s) ==
  /\ inv[s].pc = "reset"
  /\ resetConversationMessages(ConvOf(s))
  /\ inv' = [t \in Slots |->
               IF t = s
                 THEN [inv[s] EXCEPT !.pc = "get", !.trace = Append(@, "reset"),
                                     !.resetDuring = TRUE]
                 ELSE IF ConvOf(t) = ConvOf(s)
                        THEN [inv[t] EXCEPT !.resetSeen = InFlight(t) \/ @,
                                            !.resetDuring = TRUE]
                        ELSE inv[t]]
  /\ UNCHANGED <<envVars, authVars, nEvents, uuidCount, drv, clientVars>>

\* route.ts:136
GetStep(s) ==
  /\ inv[s].pc = "get"
  /\ GetEffect
  /\ inv' = [inv EXCEPT ![s] =
       [@ EXCEPT !.pc = "append_user", !.trace = Append(@, "get"),
                 !.existingMessages = getConversationMessages(ConvOf(s))]]
  /\ UNCHANGED <<envVars, authVars, nEvents, uuidCount, drv, clientVars>>

\* Dispatch without the case for session.update, which falls to the default
Dispatch_NoUpdateCase(r) ==
  CASE r.requestBody.type = "session.start" ->
         [r EXCEPT !.pc = "append_welcome", !.status = 200, !.streamOpened = TRUE,
                   !.trace = Append(@, "dispatch")]
    [] r.requestBody.type = "message" ->
         [r EXCEPT !.pc = "generate", !.status = 200, !.streamOpened = TRUE,
                   !.trace = Append(@, "dispatch")]
    [] r.requestBody.type = "session.end" ->
         [r EXCEPT !.pc = "done", !.status = 200, !.trace = Append(@, "dispatch")]
    [] OTHER ->
         [r EXCEPT !.pc = "done", !.status = 400, !.trace = Append(@, "dispatch")]

\* route.ts:146-208: the switch on the event type; streamResponse answers at once
\* and runs its callback afterwards
Dispatch(r) ==
  CASE r.requestBody.type = "session.start" ->
         [r EXCEPT !.pc = "append_welcome", !.status = 200, !.streamOpened = TRUE,
                   !.trace = Append(@, "dispatch")]
    [] r.requestBody.type = "message" ->
         [r EXCEPT !.pc = "generate", !.status = 200, !.streamOpened = TRUE,
                   !.trace = Append(@, "dispatch")]
    [] r.requestBody.type \in {"session.end", "session.update"} ->
         [r EXCEPT !.pc = "done", !.status = 200, !.trace = Append(@, "dispatch")]
    [] OTHER ->
         [r EXCEPT !.pc = "done", !.status = 400, !.trace = Append(@, "dispatch")]

\* route.ts:159-160: stream.tts(WELCOME_MESSAGE); stream.end()
WelcomeSpeak(r) ==
  [r EXCEPT !.pc = "done", !.ttsCalls = @ + 1, !.streamEnds = @ + 1,
            !.trace = @ \o <<"tts", "end">>]

\* onFinish without its stream.end()
StreamEnd_Missing(r) == [r EXCEPT !.pc = "done"]

\* route.ts:190
StreamEnd(r) ==
  [r EXCEPT !.pc = "done", !.streamEnds = @ + 1, !.trace = Append(@, "end")]

\* the messages handed to appendConversationMessages at route.ts:144, 158, 187
PendingAppend(r) ==
  CASE r.pc \in {"append_user", "expire_user"} -> <<userMessage(r)>>
    [] r.pc \in {"append_welcome", "expire_welcome"} -> <<welcomeMessage(r)>>
    [] r.pc \in {"append_gen", "expire_gen"} -> r.generatedMessages
    [] OTHER -> <<>>

\* the code that runs once the awaited appendConversationMessages has returned
AfterAppend(r) ==
  CASE r.pc \in {"append_user", "expire_user"} -> Dispatch(r)
    [] r.pc \in {"append_welcome", "expire_welcome"} -> WelcomeSpeak(r)
    [] r.pc \in {"append_gen", "expire_gen"} -> StreamEnd(r)

ExpirePc(pc) ==
  CASE pc = "append_user" -> "expire_user"
    [] pc = "append_welcome" -> "expire_welcome"
    [] pc = "append_gen" -> "expire_gen"

\* an append that writes back the history the handler read earlier with the new
\* messages added, in place of appending to what the store holds now
CallAppend_StaleWrite(s, r) ==
  /\ IF ~isKvConfigured
       THEN /\ warnAboutKvFallback
            /\ inMemoryConversations' =
                 [inMemoryConversations EXCEPT ![r.requestBody.conversation_id] =
                    r.existingMessages \o PendingAppend(r)]
            /\ UNCHANGED <<kvList, kvTtl, kvCalls>>
       ELSE /\ kvList' = [kvList EXCEPT ![conversationKey(r.requestBody.conversation_id)] =
                           LET all == r.existingMessages \o PendingAppend(r)
                           IN [i \in 1..Len(all) |-> JSONstringify(all[i])]]
            /\ kvCalls' = kvCalls + 1
            /\ UNCHANGED <<inMemoryConversations, kvWarningShown, warnings, kvTtl>>
  /\ LET r1 == [r EXCEPT !.trace = Append(@, r.pc),
                         !.resetSeen = IF r.pc = "append_user" THEN FALSE ELSE @]
     IN inv' = [inv EXCEPT ![s] =
                  IF AppendAwaitsExpire(PendingAppend(r))
                    THEN [r1 EXCEPT !.pc = ExpirePc(r.pc)]
                    ELSE AfterAppend(r1)]

\* a call of appendConversationMessages by the invocation whose record is r
CallAppend(s, r) ==
  /\ AppendFirst(r.requestBody.conversation_id, PendingAppend(r))
  /\ LET r1 == [r EXCEPT !.trace = Append(@, r.pc),
                         !.resetSeen = IF r.pc = "append_user" THEN FALSE ELSE @]
     IN inv' = [inv EXCEPT ![s] =
                  IF AppendAwaitsExpire(PendingAppend(r))
                    THEN [r1 EXCEPT !.pc = ExpirePc(r.pc)]
                    ELSE AfterAppend(r1)]

\* route.ts:144 and 158: the user Message, the welcome Message
AppendStep(s) ==
  /\ inv[s].pc \in {"append_user", "append_welcome"}
  /\ CallAppend(s, inv[s])
  /\ UNCHANGED <<envVars, authVars, nEvents, uuidCount, drv, clientVars>>

\* route.ts:102, and the code after the await of appendConversationMessages
ExpireStep(s) ==
  /\ inv[s].pc \in {"expire_user", "expire_welcome", "expire_gen"}
  /\ AppendExpire(ConvOf(s))
  /\ inv' = [inv EXCEPT ![s] = AfterAppend(inv[s])]
  /\ UNCHANGED <<envVars, authVars, nEvents, uuidCount, drv, clientVars>>

\* route.ts:60-66
getOpenAIClient == IF apiKeySet THEN "client" ELSE "throws"

\* route.ts:167-174: the stream callback builds conversationForModel; getOpenAIClient
\* throws without an API key, otherwise streamText issues the generation call
StartGeneration(s) ==
  /\ inv[s].pc = "generate"
  /\ inv' = [inv EXCEPT ![s] =
       IF getOpenAIClient = "throws"
         THEN [@ EXCEPT !.pc = "done",
                        !.conversationForModel = inv[s].existingMessages \o <<userMessage(inv[s])>>,
                        !.failure = "OPENAI_API_KEY environment variable is not set"]
         ELSE [@ EXCEPT !.pc = "streaming", !.genCalls = @ + 1,
                        !.conversationForModel = inv[s].existingMessages \o <<userMessage(inv[s])>>,
                        !.trace = Append(@, "generate")]]
  /\ UNCHANGED <<envVars, authVars, storeVars, nEvents, uuidCount, drv, clientVars>>

\* route.ts:175-187: the generation completes; onFinish builds generatedMessages from
\* the k assistant messages of the response and calls appendConversationMessages
GenFinish(s, k) ==
  /\ inv[s].pc = "streaming"
  /\ CallAppend(s, [inv[s] EXCEPT !.pc = "append_gen",
                                  !.generatedMessages = generatedMessagesOf(inv[s], k),
                                  !.trace = Append(@, "finish")])
  /\ uuidCount' = uuidCount + k
  /\ UNCHANGED <<envVars, authVars, nEvents, drv, clientVars>>

\* a failing generation call that is issued again
GenFail_Retries(s, e) ==
  /\ inv[s].pc = "streaming"
  /\ inv' = [inv EXCEPT ![s] = [@ EXCEPT !.pc = "generate", !.failure = e]]
  /\ UNCHANGED <<envVars, authVars, storeVars, nEvents, uuidCount, drv, clientVars>>

\* the generation call fails: onFinish (route.ts:175) is never invoked
GenFail(s, e) ==
  /\ inv[s].pc = "streaming"
  /\ inv' = [inv EXCEPT ![s] = [@ EXCEPT !.pc = "done", !.failure = e]]
  /\ UNCHANGED <<envVars, authVars, storeVars, nEvents, uuidCount, drv, clientVars>>

\* a durable-backend primitive (route.ts:87, 101, 102, 111) fails: nothing in the
\* handler catches it, so the awaiting function rejects
KvPending(s) ==
  /\ isKvConfigured
  /\ inv[s].pc \in {"reset", "get", "append_user", "append_welcome",
                    "expire_user", "expire_welcome", "expire_gen"}

KvFail(s) ==
  /\ KvPending(s)
  /\ kvCalls' = kvCalls + 1
  /\ inv' = [inv EXCEPT ![s] = [@ EXCEPT !.pc = "done", !.failure = "kv unreachable"]]
  /\ UNCHANGED <<envVars, authVars, inMemoryConversations, kvWarningShown, warnings, kvList, kvTtl,
                 nEvents, uuidCount, drv, clientVars>>

\* ------------------------------------------------------------ the client
\* VoiceAgentDemo.tsx; the event handlers run to completion one after the other.

Undefined == "undefined"            \* a field the event or entry does not carry
Str(v) == [kind |-> "string", val |-> v, num |-> 0]
Num(n) == [kind |-> "number", val |-> "", num |-> n]
Absent == [kind |-> "absent", val |-> "", num |-> 0]

RawTurnIds == {Str("t1"), Num(7), Absent}          \* turn_id?: string | number
RawCounters == {Num(2), Str("10"), Absent}         \* delta_counter?: number | string
Contents == {"a", "b"}
ClientTypes == {"turn.end", "user.transcript.delta", "user.transcript.interim_delta",
                "response.text", "other"}
AgentEvents ==
  [type : ClientTypes, turn_id : RawTurnIds, delta_counter : RawCounters, content : Contents]

NoEvent == [type |-> "none", turn_id |-> Absent, delta_counter |-> Absent, content |-> ""]

\* String(event.turn_id)
StringOf(raw) == IF raw.kind = "number" THEN ToString(raw.num) ELSE raw.val

\* Number(rawCounter) for the decimal strings the platform sends
DecimalStrings == [i \in 0..12 |-> ToString(i)]
NumberOf(raw) ==
  IF raw.kind = "number" THEN raw.num
  ELSE CHOOSE i \in DOMAIN DecimalStrings : DecimalStrings[i] = raw.val

Falsy(turnId) == turnId = Undefined \/ turnId = ""

Min(S) == CHOOSE x \in S : \A y \in S : x <= y

RECURSIVE Join(_)
Join(texts) == IF Len(texts) = 0 THEN "" ELSE Head(texts) \o Join(Tail(texts))

Max(S) == CHOOSE x \in S : \A y \in S : x >= y

\* the sort with its comparator reversed (b - a)
RECURSIVE SortedCounters_Descending(_)
SortedCounters_Descending(turnMap) ==
  IF DOMAIN turnMap = {} THEN <<>>
  ELSE LET c == Max(DOMAIN turnMap)
       IN <<c>> \o SortedCounters_Descending([k \in DOMAIN turnMap \ {c} |-> turnMap[k]])

\* VoiceAgentDemo.tsx:224: [...turnMap.entries()].sort(([a], [b]) => a - b)
RECURSIVE SortedCounters(_)
SortedCounters(turnMap) ==
  IF DOMAIN turnMap = {} THEN <<>>
  ELSE LET c == Min(DOMAIN turnMap)
       IN <<c>> \o SortedCounters([k \in DOMAIN turnMap \ {c} |-> turnMap[k]])

ChunksOf(turnMap) ==
  LET order == SortedCounters(turnMap)
  IN [i \in 1..Len(order) |-> [counter |-> order[i], text |-> turnMap[order[i]]]]

\* upsertMessage that ignores opts.replace and always appends to the text
upsertMessage_IgnoresReplace(prev, next, replace) ==
  IF Falsy(next.turnId) THEN Append(prev, next)
  ELSE LET found == {i \in 1..Len(prev) :
                       prev[i].turnId = next.turnId /\ prev[i].role = next.role}
       IN IF found = {} THEN Append(prev, next)
          ELSE LET index == Min(found)
               IN [prev EXCEPT ![index] =
                     [@ EXCEPT !.text = @ \o next.text,
                               !.hasChunks = next.hasChunks \/ @,
                               !.chunks = IF next.hasChunks THEN next.chunks ELSE @]]

\* upsertMessage that never looks for the entry of the pair and always appends
upsertMessage_AlwaysAppends(prev, next, replace) == Append(prev, next)

\* VoiceAgentDemo.tsx:176-192: the display list after upsertMessage(next, opts)
upsertMessage(prev, next, replace) ==
  IF Falsy(next.turnId) THEN Append(prev, next)
  ELSE LET found == {i \in 1..Len(prev) :
                       prev[i].turnId = next.turnId /\ prev[i].role = next.role}
       IN IF found = {} THEN Append(prev, next)
          ELSE LET index == Min(found)
               IN [prev EXCEPT ![index] =
                     [@ EXCEPT !.text = IF replace THEN next.text ELSE @ \o next.text,
                               !.hasChunks = next.hasChunks \/ @,
                               !.chunks = IF next.hasChunks THEN next.chunks ELSE @]]

SystemMessage(text) ==
  [role |-> "system", text |-> text, turnId |-> Undefined, hasChunks |-> FALSE, chunks |-> <<>>]

\* VoiceAgentDemo.tsx:194-196
clearTurn(chunksByTurn, turnId) ==
  [t \in DOMAIN chunksByTurn \ {turnId} |-> chunksByTurn[t]]

TurnIdOfEvent(event) ==
  IF event.turn_id.kind # "absent" THEN StringOf(event.turn_id) ELSE Undefined

\* VoiceAgentDemo.tsx:204
CounterOfEvent(event) ==
  IF event.delta_counter.kind # "absent" THEN NumberOf(event.delta_counter) ELSE -1
HasCounter(event) == event.delta_counter.kind # "absent"

\* updateUserTranscript that keeps the fragment already buffered for a counter
updateUserTranscript_KeepsFragment(event) ==
  LET turnId == TurnIdOfEvent(event)
      counter == CounterOfEvent(event)
  IN IF Falsy(turnId) \/ ~HasCounter(event)
       THEN /\ userChunksByTurn' =
                 IF ~Falsy(turnId) THEN clearTurn(userChunksByTurn, turnId)
                 ELSE userChunksByTurn
            /\ recv' = IF ~Falsy(turnId) THEN clearTurn(recv, turnId) ELSE recv
            /\ messages' = upsertMessage(messages,
                 [role |-> "user", turnId |-> turnId, text |-> event.content,
                  hasChunks |-> TRUE, chunks |-> <<>>], TRUE)
       ELSE LET old == IF turnId \in DOMAIN userChunksByTurn
                         THEN userChunksByTurn[turnId] ELSE <<>>
                turnMap == [c \in DOMAIN old \cup {counter} |->
                              IF c \in DOMAIN old THEN old[c] ELSE event.content]
                chunks == ChunksOf(turnMap)
                aggregatedText == Join([i \in 1..Len(chunks) |-> chunks[i].text])
            IN /\ userChunksByTurn' =
                    [t \in DOMAIN userChunksByTurn \cup {turnId} |->
                       IF t = turnId THEN turnMap ELSE userChunksByTurn[t]]
               /\ recv' = [t \in DOMAIN recv \cup {turnId} |->
                             IF t = turnId
                               THEN Append(IF t \in DOMAIN recv THEN recv[t] ELSE <<>>,
                                           [counter |-> counter, text |-> event.content])
                               ELSE recv[t]]
               /\ messages' = upsertMessage(messages,
                    [role |-> "user", turnId |-> turnId, text |-> aggregatedText,
                     hasChunks |-> TRUE, chunks |-> chunks], TRUE)

\* VoiceAgentDemo.tsx:198-238
updateUserTranscript(event) ==
  LET turnId == TurnIdOfEvent(event)
      counter == CounterOfEvent(event)
  IN IF Falsy(turnId) \/ ~HasCounter(event)
       THEN /\ userChunksByTurn' =
                 IF ~Falsy(turnId) THEN clearTurn(userChunksByTurn, turnId)
                 ELSE userChunksByTurn
            /\ recv' = IF ~Falsy(turnId) THEN clearTurn(recv, turnId) ELSE recv
            /\ messages' = upsertMessage(messages,
                 [role |-> "user", turnId |-> turnId, text |-> event.content,
                  hasChunks |-> TRUE, chunks |-> <<>>], TRUE)
       ELSE LET old == IF turnId \in DOMAIN userChunksByTurn
                         THEN userChunksByTurn[turnId] ELSE <<>>
                turnMap == [c \in DOMAIN old \cup {counter} |->
                              IF c = counter THEN event.content ELSE old[c]]
                chunks == ChunksOf(turnMap)
                aggregatedText == Join([i \in 1..Len(chunks) |-> chunks[i].text])
            IN /\ userChunksByTurn' =
                    [t \in DOMAIN userChunksByTurn \cup {turnId} |->
                       IF t = turnId THEN turnMap ELSE userChunksByTurn[t]]
               /\ recv' = [t \in DOMAIN recv \cup {turnId} |->
                             IF t = turnId
                               THEN Append(IF t \in DOMAIN recv THEN recv[t] ELSE <<>>,
                                           [counter |-> counter, text |-> event.content])
                               ELSE recv[t]]
               /\ messages' = upsertMessage(messages,
                    [role |-> "user", turnId |-> turnId, text |-> aggregatedText,
                     hasChunks |-> TRUE, chunks |-> chunks], TRUE)

\* appendAssistantMessage that passes replace, so that the text of an entry already
\* displayed is replaced by the content of the event
appendAssistantMessage_Replaces(event) ==
  /\ messages' = upsertMessage(messages,
       [role |-> "assistant", turnId |-> TurnIdOfEvent(event), text |-> event.content,
        hasChunks |-> FALSE, chunks |-> <<>>], TRUE)
  /\ UNCHANGED <<userChunksByTurn, recv>>

\* VoiceAgentDemo.tsx:240-250
appendAssistantMessage(event) ==
  /\ messages' = upsertMessage(messages,
       [role |-> "assistant", turnId |-> TurnIdOfEvent(event), text |-> event.content,
        hasChunks |-> FALSE, chunks |-> <<>>], FALSE)
  /\ UNCHANGED <<userChunksByTurn, recv>>

\* the turn.end bookkeeping of the history variable ended
EndedAfter(evt) ==
  IF evt.type = "turn.end" /\ evt.turn_id.kind # "absent"
    THEN LET tid == StringOf(evt.turn_id)
         IN [t \in DOMAIN ended \cup {tid} |->
               IF t = tid THEN (IF tid \in DOMAIN recv THEN recv[tid] ELSE <<>>)
               ELSE ended[t]]
    ELSE ended

\* handleAgentMessage that leaves the buffer of the turn in place on turn.end
handleAgentMessage_KeepsBuffer(evt) ==
  /\ status = "connected"
  /\ nClient < MaxClientEvents
  /\ nClient' = nClient + 1
  /\ lastEvent' = evt
  /\ ended' = EndedAfter(evt)
  /\ IF evt.type = "turn.end" /\ evt.turn_id.kind # "absent"
       THEN /\ userChunksByTurn' = userChunksByTurn
            /\ recv' = clearTurn(recv, StringOf(evt.turn_id))
            /\ UNCHANGED messages
       ELSE IF evt.type \in {"user.transcript.delta", "user.transcript.interim_delta"}
         THEN updateUserTranscript(evt)
         ELSE IF evt.type = "response.text"
           THEN appendAssistantMessage(evt)
           ELSE UNCHANGED <<messages, userChunksByTurn, recv>>
  /\ UNCHANGED <<isSessionActive, status, envVars, authVars, serverVars>>

\* VoiceAgentDemo.tsx:252-272, called for every event of a connected session
handleAgentMessage(evt) ==
  /\ status = "connected"
  /\ nClient < MaxClientEvents
  /\ nClient' = nClient + 1
  /\ lastEvent' = evt
  /\ ended' = EndedAfter(evt)
  /\ IF evt.type = "turn.end" /\ evt.turn_id.kind # "absent"
       THEN /\ userChunksByTurn' = clearTurn(userChunksByTurn, StringOf(evt.turn_id))
            /\ recv' = clearTurn(recv, StringOf(evt.turn_id))
            /\ UNCHANGED messages
       ELSE IF evt.type \in {"user.transcript.delta", "user.transcript.interim_delta"}
         THEN updateUserTranscript(evt)
         ELSE IF evt.type = "response.text"
           THEN appendAssistantMessage(evt)
           ELSE UNCHANGED <<messages, userChunksByTurn, recv>>
  /\ UNCHANGED <<isSessionActive, status, envVars, authVars, serverVars>>

\* VoiceAgentDemo.tsx:320-331: the connect button, up to the await of connect()
handleConnectClick ==
  /\ ~isSessionActive /\ status # "connecting"
  /\ userChunksByTurn' = <<>>
  /\ recv' = <<>>
  /\ lastEvent' = NoEvent /\ ended' = <<>>
  /\ messages' = <<>>
  /\ status' = "connecting"
  /\ UNCHANGED <<isSessionActive, nClient, envVars, authVars, serverVars>>

\* VoiceAgentDemo.tsx:278-281: connect() succeeds and the hook calls onConnect
onConnect ==
  /\ status = "connecting"
  /\ status' = "connected"
  /\ isSessionActive' = TRUE
  /\ messages' = Append(messages, SystemMessage("Connected"))
  /\ lastEvent' = NoEvent
  /\ UNCHANGED <<userChunksByTurn, recv, ended, nClient, envVars, authVars, serverVars>>

\* VoiceAgentDemo.tsx:333-337: connect() rejects
connectFailed ==
  /\ status = "connecting"
  /\ status' = "error"
  /\ messages' = <<SystemMessage("Failed to connect")>>
  /\ lastEvent' = NoEvent
  /\ UNCHANGED <<isSessionActive, userChunksByTurn, recv, ended, nClient,
                 envVars, authVars, serverVars>>

\* onDisconnect without userChunksByTurn.current.clear()
onDisconnect_KeepsBuffers ==
  /\ status = "connected"
  /\ status' = "disconnected"
  /\ isSessionActive' = FALSE
  /\ lastEvent' = NoEvent /\ ended' = <<>>
  /\ messages' = Append(messages, SystemMessage("Disconnected"))
  /\ UNCHANGED <<userChunksByTurn, recv, nClient, envVars, authVars, serverVars>>

\* VoiceAgentDemo.tsx:282-286
onDisconnect ==
  /\ status = "connected"
  /\ status' = "disconnected"
  /\ isSessionActive' = FALSE
  /\ userChunksByTurn' = <<>>
  /\ recv' = <<>>
  /\ lastEvent' = NoEvent /\ ended' = <<>>
  /\ messages' = Append(messages, SystemMessage("Disconnected"))
  /\ UNCHANGED <<nClient, envVars, authVars, serverVars>>

\* ------------------------------------------- the authorization endpoint
\* app/api/authorize/route.ts; one action per await-to-await segment of POST.

AuthSlots == {1, 2}                 \* authorization requests that may be in flight together
AgentIds == {Undefined, "", "agent1"}
AuthRequestBodies ==
  {[isNull |-> TRUE, agent_id |-> Undefined]} \cup [isNull : {FALSE}, agent_id : AgentIds]
NoAuthBody == [isNull |-> TRUE, agent_id |-> "none"]

NoJson == [client_session_key |-> ""]
SessionJson == {[client_session_key |-> "k1"],
                [client_session_key |-> "insufficient_balance"]}

\* how the fetch of the external service settles: a response with ok set and a JSON
\* body, one with ok set whose body is not JSON, one with ok unset, or a rejection
FetchOutcomes ==
  [kind : {"ok"}, json : SessionJson, text : {""}, statusText : {"OK"}, message : {""}]
    \cup [kind : {"ok_not_json"}, json : {NoJson}, text : {""}, statusText : {"OK"},
          message : {"Unexpected token < in JSON"}]
    \cup [kind : {"not_ok"}, json : {NoJson},
          text : {"", "agent not found", "error: insufficient_balance for org"},
          statusText : {"Payment Required"}, message : {""}]
    \cup [kind : {"rejected"}, json : {NoJson}, text : {""}, statusText : {""},
          message : {"fetch failed"}]
NoOutcome == [kind |-> "none", json |-> NoJson, text |-> "", statusText |-> "", message |-> ""]

\* String.prototype.includes
Includes(str, sub) ==
  \E i \in 1..(Len(str) - Len(sub) + 1) : SubSeq(str, i, i + Len(sub) - 1) = sub

ErrorResponse(code, text) == [status |-> code, kind |-> "error", error |-> text, json |-> NoJson]
JsonResponse(json) == [status |-> 200, kind |-> "json", error |-> "", json |-> json]
NoResponse == [status |-> 0, kind |-> "none", error |-> "", json |-> NoJson]

\* authorize/route.ts:53-59: the message of the error the catch block receives
errorMessage(outcome) ==
  IF outcome.kind = "not_ok"
    THEN IF outcome.text # "" THEN outcome.text ELSE outcome.statusText
    ELSE outcome.message

\* the catch block without its insufficient_balance branch
AuthCatch_NoBalanceBranch(outcome) == ErrorResponse(500, errorMessage(outcome))

\* authorize/route.ts:58-71
AuthCatch(outcome) ==
  IF Includes(errorMessage(outcome), "insufficient_balance")
    THEN ErrorResponse(402, "insufficient_balance")
    ELSE ErrorResponse(500, errorMessage(outcome))

IdleAuth ==
  [pc |-> "idle", requestBody |-> NoAuthBody, response |-> NoResponse,
   fetchCalls |-> 0, forwarded |-> NoAuthBody, outcome |-> NoOutcome]

AuthBusy(a) == auth[a].pc \notin {"idle", "done"}

\* authorize/route.ts:32-40: a request arrives; without an API key it is answered at
\* once, otherwise the handler awaits the request body
AuthReceive(a, body) ==
  /\ auth[a].pc \in {"idle", "done"}
  /\ \A b \in AuthSlots : b < a => AuthBusy(b)
  /\ nAuth < MaxAuthRequests
  /\ nAuth' = nAuth + 1
  /\ auth' = [auth EXCEPT ![a] =
       IF ~layercodeApiKeySet
         THEN [IdleAuth EXCEPT !.pc = "done", !.requestBody = body,
                               !.response = ErrorResponse(500, "LAYERCODE_API_KEY not set")]
         ELSE [IdleAuth EXCEPT !.pc = "json", !.requestBody = body]]
  /\ UNCHANGED <<envVars, serverVars, clientVars>>

\* authorize/route.ts:40-52: the body is there; without an agent_id the request is
\* answered, otherwise the body is forwarded to the external service
AuthForward(a) ==
  /\ auth[a].pc = "json"
  /\ auth' = [auth EXCEPT ![a] =
       IF auth[a].requestBody.isNull \/ Falsy(auth[a].requestBody.agent_id)
         THEN [@ EXCEPT !.pc = "done", !.response = ErrorResponse(500, "Missing agent_id")]
         ELSE [@ EXCEPT !.pc = "fetch", !.fetchCalls = @ + 1,
                        !.forwarded = auth[a].requestBody]]
  /\ UNCHANGED <<envVars, serverVars, clientVars, nAuth>>

\* authorize/route.ts:53-71: the fetch settles and the response is built
AuthSettle(a, outcome) ==
  /\ auth[a].pc = "fetch"
  /\ auth' = [auth EXCEPT ![a] =
       [@ EXCEPT !.pc = "done", !.outcome = outcome,
                 !.response = IF outcome.kind = "ok" THEN JsonResponse(outcome.json)
                              ELSE AuthCatch(outcome)]]
  /\ UNCHANGED <<envVars, serverVars, clientVars, nAuth>>

\* ------------------------------------------------------ the store driver
\* A single caller issuing get, append and reset calls one after the other.

\* fault: the durable-backend primitive that rejected during the last call;
\* failure: whether the last call itself rejected; ref: per identifier, the messages
\* of the append calls issued since the last reset call, in call order (history only)
IdleDrv ==
  [op |-> "none", id |-> "none", messages |-> <<>>, pc |-> "ret", result |-> <<>>,
   n |-> 0, cleared |-> [c \in Keys |-> -1],
   fault |-> "none", failure |-> "none", ref |-> [c \in Keys |-> <<>>]]

PoolUser(id) ==
  [id |-> "t1", role |-> "user", conversation_id |-> id, text |-> "hi", ev |-> 0]
PoolAssistant(id) ==
  [id |-> "t1", role |-> "assistant", conversation_id |-> id, text |-> WELCOME_MESSAGE, ev |-> 0]

AppendArgs(id) ==
  {<<>>, <<PoolUser(id)>>, <<PoolAssistant(id)>>, <<PoolUser(id), PoolAssistant(id)>>}

\* get(id); cleared[id] keeps, while no message has been appended to id since its
\* last reset, the length the log had at that reset (history only)
DrvGet(id) ==
  /\ drv.pc = "ret" /\ drv.n < MaxCalls
  /\ GetEffect
  /\ drv' = [drv EXCEPT !.op = "get", !.id = id, !.messages = <<>>, !.n = @ + 1,
                        !.fault = "none", !.failure = "none",
                        !.result = getConversationMessages(id)]
  /\ UNCHANGED <<envVars, authVars, inv, nEvents, uuidCount, clientVars>>

DrvAppend(id, newMessages) ==
  /\ drv.pc = "ret" /\ drv.n < MaxCalls
  /\ AppendFirst(id, newMessages)
  /\ drv' = [drv EXCEPT !.op = "append", !.id = id, !.messages = newMessages, !.n = @ + 1,
                        !.result = <<>>, !.fault = "none", !.failure = "none",
                        !.pc = IF AppendAwaitsExpire(newMessages) THEN "expire" ELSE "ret",
                        !.cleared[id] = IF Len(newMessages) # 0 THEN -1 ELSE @,
                        !.ref[id] = @ \o newMessages]
  /\ UNCHANGED <<envVars, authVars, inv, nEvents, uuidCount, clientVars>>

DrvExpire ==
  /\ drv.pc = "expire"
  /\ AppendExpire(drv.id)
  /\ drv' = [drv EXCEPT !.pc = "ret"]
  /\ UNCHANGED <<envVars, authVars, inv, nEvents, uuidCount, clientVars>>

DrvReset(id) ==
  /\ drv.pc = "ret" /\ drv.n < MaxCalls
  /\ resetConversationMessages(id)
  /\ drv' = [drv EXCEPT !.op = "reset", !.id = id, !.messages = <<>>, !.n = @ + 1,
                        !.result = <<>>, !.fault = "none", !.failure = "none",
                        !.cleared[id] = Len(Log(id)), !.ref[id] = <<>>]
  /\ UNCHANGED <<envVars, authVars, inv, nEvents, uuidCount, clientVars>>

\* the first durable-backend primitive of a store call rejects (kv.lrange at
\* route.ts:87, kv.rpush at 101, kv.del at 111): no store function catches it, so
\* the call rejects; the backend and the in-process map are left as they were
DrvKvFail(id, op, newMessages) ==
  /\ isKvConfigured
  /\ drv.pc = "ret" /\ drv.n < MaxCalls
  /\ op = "append" => Len(newMessages) # 0
  /\ op # "append" => newMessages = <<>>
  /\ kvCalls' = kvCalls + 1
  /\ drv' = [drv EXCEPT !.op = op, !.id = id, !.messages = newMessages, !.n = @ + 1,
                        !.result = <<>>, !.failure = "rejected",
                        !.fault = CASE op = "get" -> "lrange"
                                    [] op = "append" -> "rpush"
                                    [] op = "reset" -> "del"]
  /\ UNCHANGED <<envVars, authVars, inMemoryConversations, kvWarningShown, warnings, kvList, kvTtl,
                 inv, nEvents, uuidCount, clientVars>>

\* kv.expire (route.ts:102) rejects after kv.rpush has taken effect
DrvExpireFail ==
  /\ drv.pc = "expire"
  /\ kvCalls' = kvCalls + 1
  /\ drv' = [drv EXCEPT !.pc = "ret", !.fault = "expire", !.failure = "rejected"]
  /\ UNCHANGED <<envVars, authVars, inMemoryConversations, kvWarningShown, warnings, kvList, kvTtl,
                 inv, nEvents, uuidCount, clientVars>>

\* ------------------------------------------------------ specifications

InitState ==
  /\ inMemoryConversations = [c \in Keys |-> <<>>]
  /\ kvWarningShown = FALSE
  /\ warnings = 0
  /\ kvList = [c \in Keys |-> <<>>]
  /\ kvTtl = [c \in Keys |-> NoTtl]
  /\ kvCalls = 0
  /\ inv = [s \in Slots |-> IdleInv]
  /\ nEvents = 0
  /\ uuidCount = 0
  /\ drv = IdleDrv
  /\ messages = <<>>
  /\ isSessionActive = FALSE
  /\ userChunksByTurn = <<>>
  /\ status = "initial"
  /\ nClient = 0
  /\ recv = <<>>
  /\ lastEvent = NoEvent
  /\ ended = <<>>
  /\ auth = [a \in AuthSlots |-> IdleAuth]
  /\ nAuth = 0

Init ==
  /\ isKvConfigured \in BOOLEAN /\ apiKeySet \in BOOLEAN /\ layercodeApiKeySet = FALSE
  /\ InitState

Next ==
  \E s \in Slots :
    \/ \E body \in Bodies(nEvents + 1), valid \in BOOLEAN : Receive(s, body, valid)
    \/ ResetStep(s)
    \/ GetStep(s)
    \/ AppendStep(s)
    \/ ExpireStep(s)
    \/ StartGeneration(s)
    \/ \E k \in 0..MaxGen : GenFinish(s, k)
    \/ \E e \in GenErrors : GenFail(s, e)

Spec == Init /\ [][Next]_vars

NextFault == Next \/ \E s \in Slots : KvFail(s)

SpecFault == Init /\ [][NextFault]_vars

NextStore ==
  \/ \E id \in Keys : DrvGet(id)
  \/ \E id \in Keys : \E newMessages \in AppendArgs(id) : DrvAppend(id, newMessages)
  \/ DrvExpire
  \/ \E id \in Keys : DrvReset(id)

SpecStore == Init /\ [][NextStore]_vars

StoreOps == {"get", "append", "reset"}

NextStoreFault ==
  \/ NextStore
  \/ \E id \in Keys, op \in StoreOps :
       \E newMessages \in AppendArgs(id) : DrvKvFail(id, op, newMessages)
  \/ DrvExpireFail

SpecStoreFault == Init /\ [][NextStoreFault]_vars

InitClient ==
  /\ isKvConfigured = FALSE /\ apiKeySet = FALSE /\ layercodeApiKeySet = FALSE
  /\ InitState

NextClient ==
  \/ \E evt \in AgentEvents : handleAgentMessage(evt)
  \/ handleConnectClick
  \/ onConnect
  \/ connectFailed
  \/ onDisconnect

SpecClient == InitClient /\ [][NextClient]_vars

InitAuth ==
  /\ isKvConfigured = FALSE /\ apiKeySet = FALSE /\ layercodeApiKeySet \in BOOLEAN
  /\ InitState

NextAuth ==
  \E a \in AuthSlots :
    \/ \E body \in AuthRequestBodies : AuthReceive(a, body)
    \/ AuthForward(a)
    \/ \E outcome \in FetchOutcomes : AuthSettle(a, outcome)

SpecAuth == InitAuth /\ [][NextAuth]_vars

\* ---------------------------------------------------------- properties

Range(seq) == {seq[i] : i \in 1..Len(seq)}
Positions(seq, x) == {i \in 1..Len(seq) : seq[i] = x}
TypeOf(s) == inv[s].requestBody.type

\* the step is one of invocation s itself (a step of another invocation only
\* touches the history flags of s)
OwnStep(s) == inv'[s].pc # inv[s].pc \/ inv'[s].ev # inv[s].ev
Finishes(s) == OwnStep(s) /\ inv'[s].pc = "done"
LogNext(c) == Log(c)'

HasInsufficientBalance(msg) == msg = "insufficient_balance: top up"

\* C1 (as claimed): for a validly signed message event, under any interleaving, the
\* user Message is in the log when the generation call is issued, and every assistant
\* Message appended for the turn has the triggering user Message before it in the log.
C1_UserBeforeAssistant ==
  [][\A s \in Slots :
       (inv[s].isValid /\ TypeOf(s) = "message") =>
         /\ inv'[s].genCalls > inv[s].genCalls
              => Positions(Log(ConvOf(s)), userMessage(inv[s])) # {}
         /\ (inv[s].pc = "streaming" /\ inv'[s].pc # "streaming")
              => \A j \in 1..Len(LogNext(ConvOf(s))) :
                   LogNext(ConvOf(s))[j] \in Range(inv'[s].generatedMessages)
                     => \E i \in 1..(j - 1) : LogNext(ConvOf(s))[i] = userMessage(inv[s])
    ]_vars

\* C2: an event whose signature does not verify is answered 401 in the step that
\* receives it, and that invocation does nothing else: the store is unchanged (no
\* reset, no append), no generation call is issued and no response stream is started.
C2_Unauthorized ==
  [][\A s \in Slots :
       (OwnStep(s) /\ ~inv'[s].isValid) =>
         /\ inv'[s].status = 401 /\ inv'[s].pc = "done"
         /\ UNCHANGED storeVars
         /\ inv'[s].trace = <<>> /\ inv'[s].genCalls = 0
         /\ ~inv'[s].streamOpened /\ inv'[s].streamEnds = 0 /\ inv'[s].ttsCalls = 0
    ]_vars

C2_Witness ==
  \E s \in Slots :
    /\ inv[s].status = 401 /\ TypeOf(s) = "session.start"
    /\ Len(Log(ConvOf(s))) > 0

\* C3 (as claimed): a validly signed event of an unrecognized type is answered 400
\* and no Message of that event is in the store.
C3_UnknownTypeNoMutation ==
  \A s \in Slots :
    (inv[s].pc = "done" /\ inv[s].isValid /\ TypeOf(s) \notin KnownTypes) =>
      /\ inv[s].status = 400
      /\ \A c \in Keys : \A i \in 1..Len(Log(c)) : Log(c)[i].ev # inv[s].ev

\* C4: when a validly signed session.start event has been handled with no other
\* invocation for its conversation in flight, the log holds exactly the user Message
\* of the event followed by the welcome Message, whatever it held before.
C4_SessionStartLog ==
  [][\A s \in Slots :
       (Finishes(s) /\ inv'[s].isValid /\ inv'[s].requestBody.type = "session.start"
          /\ ~inv'[s].overlap) =>
         \A c \in Keys :
           c = inv'[s].requestBody.conversation_id =>
             LogNext(c) = <<userMessage(inv'[s]), welcomeMessage(inv'[s])>>
    ]_vars

C4_Witness ==
  \E s \in Slots :
    /\ inv[s].pc = "done" /\ inv[s].isValid /\ TypeOf(s) = "session.start"
    /\ ~inv[s].overlap /\ inv[s].logAtStart = 3
    /\ Len(Log(ConvOf(s))) = 2

\* C5 (as claimed): a failure raised while the handler processes an event is answered
\* 500, or 402 when its message contains insufficient_balance.
C5_FailureStatus ==
  \A s \in Slots :
    (inv[s].pc = "done" /\ inv[s].failure # "none") =>
      inv[s].status = IF HasInsufficientBalance(inv[s].failure) THEN 402 ELSE 500

\* C6: for a validly signed session.start or message event processed without a
\* failure, the response stream is closed exactly once, and only after the append of
\* the event's assistant Message(s) has returned; no stream is closed twice.
C6_ClosedOnceAfterAppend ==
  \A s \in Slots :
    /\ inv[s].streamEnds <= 1
    /\ (inv[s].pc = "done" /\ inv[s].isValid /\ inv[s].failure = "none"
          /\ TypeOf(s) \in {"session.start", "message"}) =>
         LET tag == IF TypeOf(s) = "session.start" THEN "append_welcome" ELSE "append_gen"
         IN /\ inv[s].streamOpened /\ inv[s].streamEnds = 1
            /\ Cardinality(Positions(inv[s].trace, "end")) = 1
            /\ Positions(inv[s].trace, tag) # {}
            /\ \A i \in Positions(inv[s].trace, tag) :
                 \A j \in Positions(inv[s].trace, "end") : i < j
    /\ inv[s].streamEnds = 1 =>
         \E tag \in {"append_welcome", "append_gen"} : Positions(inv[s].trace, tag) # {}

C6_Witness ==
  \E s \in Slots :
    /\ inv[s].pc = "done" /\ inv[s].isValid /\ TypeOf(s) = "message"
    /\ inv[s].streamEnds = 1 /\ Len(inv[s].generatedMessages) = 2
    /\ isKvConfigured

\* C7: a validly signed session.end or session.update event is answered 200; its
\* invocation reads the history, appends the one user Message and does nothing else:
\* no reset, no assistant Message, no generation call, no response stream.
C7_AckOnly ==
  [][\A s \in Slots :
       (OwnStep(s) /\ inv'[s].isValid
          /\ inv'[s].requestBody.type \in {"session.end", "session.update"}) =>
         /\ \A c \in Keys :
              \/ LogNext(c) = Log(c)
              \/ /\ c = inv'[s].requestBody.conversation_id
                 /\ LogNext(c) = Log(c) \o <<userMessage(inv'[s])>>
         /\ inv'[s].genCalls = 0 /\ ~inv'[s].streamOpened /\ inv'[s].streamEnds = 0
         /\ inv'[s].pc = "done" =>
              /\ inv'[s].status = 200
              /\ inv'[s].trace = <<"get", "append_user", "dispatch">>
    ]_vars

C7_Witness ==
  \E s \in Slots :
    /\ inv[s].pc = "done" /\ inv[s].isValid /\ TypeOf(s) = "session.update"
    /\ inv[s].status = 200 /\ inv[s].logAtStart > 0
    /\ Len(Log(ConvOf(s))) = inv[s].logAtStart + 1

\* the contents of the delivered deltas, sorted by ascending counter (deltas of one
\* counter in their order of delivery), concatenated
RECURSIVE ConcatByCounter(_, _)
ConcatByCounter(deltas, counters) ==
  IF counters = {} THEN ""
  ELSE LET c == Min(counters)
           ofC == SelectSeq(deltas, LAMBDA d : d.counter = c)
       IN Join([i \in 1..Len(ofC) |-> ofC[i].text])
            \o ConcatByCounter(deltas, counters \ {c})

CountersOf(deltas) == {deltas[i].counter : i \in 1..Len(deltas)}
UserEntries(turnId) ==
  {i \in 1..Len(messages) : messages[i].turnId = turnId /\ messages[i].role = "user"}

\* C8 (as claimed): after the deltas of a turn have been delivered in any order, each
\* with a turn identifier and a counter and with no turn end, counterless delta or
\* disconnect in between, the displayed user text of the turn is the concatenation of
\* their contents sorted by ascending counter.
C8_ReassembledText ==
  \A t \in DOMAIN recv :
    Len(recv[t]) > 0 =>
      /\ UserEntries(t) # {}
      /\ \A i \in UserEntries(t) :
           messages[i].text = ConcatByCounter(recv[t], CountersOf(recv[t]))

\* C8 (amended): the same, for deltas whose counters are pairwise distinct.
C8_ReassembledDistinct ==
  \A t \in DOMAIN recv :
    (Len(recv[t]) > 0 /\ Cardinality(CountersOf(recv[t])) = Len(recv[t])) =>
      /\ Cardinality(UserEntries(t)) = 1
      /\ \A i \in UserEntries(t) :
           messages[i].text = ConcatByCounter(recv[t], CountersOf(recv[t]))

C8_Witness ==
  \E t \in DOMAIN recv :
    /\ Len(recv[t]) = 2 /\ recv[t][1].counter > recv[t][2].counter
    /\ recv[t][1].text # recv[t][2].text
    /\ \E i \in UserEntries(t) : messages[i].text = recv[t][2].text \o recv[t][1].text

\* C9: append(id, <<>>) is a no-op on either backend: the log and the time-to-live of
\* every key are what they were, no backend primitive is invoked and nothing is warned.
C9_AppendEmptyNoOp ==
  [][(drv'.n = drv.n + 1 /\ drv'.op = "append" /\ Len(drv'.messages) = 0) =>
       /\ UNCHANGED storeVars
       /\ drv'.pc = "ret"
       /\ \A c \in Keys : LogNext(c) = Log(c)
    ]_vars

C9_Witness ==
  /\ drv.op = "append" /\ Len(drv.messages) = 0
  /\ isKvConfigured
  /\ Len(Log(drv.id)) > 0 /\ kvTtl[drv.id] = CONVERSATION_TTL_SECONDS

\* C10: a get(id) that follows a reset(id) with no message appended to id in between
\* returns the empty sequence, whatever the log held before the reset.
C10_ResetThenGet ==
  (drv.op = "get" /\ drv.cleared[drv.id] >= 0) => drv.result = <<>>

C10_Witness ==
  /\ drv.op = "get" /\ drv.cleared[drv.id] >= 2 /\ drv.result = <<>>

\* C11: over any sequence of get, append and reset calls the fallback warning is
\* emitted at most once: once it has been emitted no later call emits it again, and
\* it is never emitted when the durable backend is configured.
C11_WarnAtMostOnce ==
  [][/\ warnings' <= 1
     /\ warnings = 1 => warnings' = 1
     /\ isKvConfigured => warnings' = 0
    ]_vars

C11_Witness ==
  /\ ~isKvConfigured /\ warnings = 1
  /\ drv.n = 4 /\ drv.op = "reset"
  /\ Len(inMemoryConversations["c2"]) > 0

\* C12 (as claimed): when a primitive of the configured durable backend fails, the
\* store call falls back to the in-process backend: it completes without failure and
\* the fallback warning has been emitted exactly once.
C12_FallbackWhenUnreachable ==
  drv.fault # "none" => (drv.failure = "none" /\ warnings = 1)

\* C13 (as claimed): get never fails on either backend, not even when the durable
\* backend's read fails: it returns the stored sequence, empty when there is none.
C13_GetNeverFails ==
  drv.op = "get" => (drv.failure = "none" /\ drv.result = Log(drv.id))

\* C14: started from empty and fed the same get, append and reset calls, a get
\* returns on either backend the messages of the append calls issued for its
\* identifier since the last reset, in call order: a value that depends on the calls
\* alone, so both backends return the same sequence.
C14_BackendsAgree ==
  drv.op = "get" => drv.result = drv.ref[drv.id]

C14_Witness ==
  /\ isKvConfigured
  /\ drv.op = "get" /\ drv.n = 4 /\ Len(drv.result) = 2
  /\ drv.result[1].role = "assistant" /\ drv.result[2].role = "user"
  /\ drv.cleared[drv.id] = -1

\* the Messages invocation r has handed to append calls that took effect, in call order
AppendedBy(r) ==
  (IF Positions(r.trace, "append_user") # {} THEN <<userMessage(r)>> ELSE <<>>)
    \o (IF Positions(r.trace, "append_welcome") # {} THEN <<welcomeMessage(r)>> ELSE <<>>)
    \o (IF Positions(r.trace, "append_gen") # {} THEN r.generatedMessages ELSE <<>>)

\* C15: under any interleaving of invocations appending to one conversation, with no
\* reset of it since they were received, no append is lost: every appended Message
\* occurs in the log exactly once and the Messages of one invocation keep the order
\* in which it appended them.
C15_NoLostAppend ==
  \A s \in Slots :
    (inv[s].pc # "idle" /\ ~inv[s].resetDuring) =>
      LET app == AppendedBy(inv[s])
          log == Log(ConvOf(s))
      IN /\ \A i \in 1..Len(app) : Cardinality(Positions(log, app[i])) = 1
         /\ \A i, j \in 1..Len(app) :
              i < j => \A p \in Positions(log, app[i]), q \in Positions(log, app[j]) : p < q

C15_Witness ==
  /\ \A s \in Slots : /\ inv[s].pc = "done" /\ TypeOf(s) = "message"
                       /\ inv[s].overlap /\ ~inv[s].resetDuring
                       /\ Len(inv[s].generatedMessages) = 2
  /\ Len(Log("c1")) = 6
  /\ Log("c1")[1].ev = 2 /\ Log("c1")[2].ev = 1 /\ Log("c1")[3].ev = 2

\* an invocation is between the kv.rpush and the kv.expire of an append to key c
AppendInProgress(c) ==
  \E s \in Slots :
    inv[s].pc \in {"expire_user", "expire_welcome", "expire_gen"} /\ conversationKey(ConvOf(s)) = c

\* C17 (as claimed): on the durable backend, once the appends to a conversation key
\* have completed or failed (none is between its list append and its expire), a
\* non-empty key carries the 12-hour time-to-live, also when an expire failed or a
\* reset of another invocation was interleaved.
C17_TtlAfterAppend ==
  isKvConfigured =>
    \A c \in Keys :
      (Len(kvList[c]) > 0 /\ ~AppendInProgress(c)) => kvTtl[c] = CONVERSATION_TTL_SECONDS

\* route.ts:168: what the message callback passes to the generation call
ModelInput(r) == r.existingMessages \o <<userMessage(r)>>

\* C18 (as claimed): for a message event, the sequence passed to the generation call
\* is the log of the conversation as it is once the user Message has been appended,
\* also when another invocation appended between this one's read and its append.
C18_ModelInputIsLog ==
  [][\A s \in Slots :
       (inv'[s].isValid /\ inv'[s].requestBody.type = "message" /\ inv'[s].ev = inv[s].ev) =>
         /\ (Positions(inv[s].trace, "append_user") = {}
               /\ Positions(inv'[s].trace, "append_user") # {}) =>
              \A c \in Keys :
                c = inv'[s].requestBody.conversation_id => LogNext(c) = ModelInput(inv'[s])
         /\ inv'[s].genCalls > inv[s].genCalls =>
              inv'[s].conversationForModel = ModelInput(inv'[s])
    ]_vars

\* C16: every answer of the authorization endpoint is: 500 with an error body and no
\* call of the external service when the API key is unset or the body has no agent
\* identifier; otherwise, after one call, the service's JSON with status 200 when the
\* service answered successfully, 402 with the error insufficient_balance when the
\* failure text contains insufficient_balance, and 500 with the failure text for
\* every other failure. No request calls the service more than once.
C16_AuthorizeAnswers ==
  \A a \in AuthSlots :
    /\ auth[a].fetchCalls <= 1
    /\ auth[a].pc = "done" =>
         LET r == auth[a]
             o == r.outcome
             text == IF o.kind = "not_ok" /\ o.text # "" THEN o.text
                     ELSE IF o.kind = "not_ok" THEN o.statusText ELSE o.message
         IN IF ~layercodeApiKeySet \/ r.requestBody.isNull
                 \/ r.requestBody.agent_id \in {Undefined, ""}
              THEN /\ r.response.status = 500 /\ r.response.kind = "error"
                   /\ r.response.error # ""
                   /\ r.fetchCalls = 0
              ELSE /\ r.fetchCalls = 1 /\ r.forwarded = r.requestBody
                   /\ CASE o.kind = "ok" -> r.response = JsonResponse(o.json)
                        [] o.kind # "ok" /\ Includes(text, "insufficient_balance") ->
                             r.response = ErrorResponse(402, "insufficient_balance")
                        [] OTHER -> r.response = ErrorResponse(500, text)

C16_Witness ==
  /\ auth[1].pc = "done" /\ auth[1].response.status = 402
  /\ auth[1].outcome.kind = "not_ok"
  /\ auth[2].pc = "done" /\ auth[2].response.status = 200
  /\ auth[2].response.json = [client_session_key |-> "insufficient_balance"]
  /\ nAuth = 3

DeltaTypes == {"user.transcript.delta", "user.transcript.interim_delta"}

\* the event handled last is a partial transcript without a turn identifier or
\* without a counter
LastIsCounterless ==
  /\ lastEvent.type \in DeltaTypes
  /\ (Falsy(TurnIdOfEvent(lastEvent)) \/ ~HasCounter(lastEvent))

\* C19 (as claimed): after a partial-transcript event that lacks a turn identifier or
\* a counter, the buffer of its turn is gone when it names a turn, and the display
\* holds one user entry for the event's turn, whose text is the event's content: the
\* event has replaced the text and added no further entry beside it.
C19_CounterlessReplaces ==
  LastIsCounterless =>
    LET t == TurnIdOfEvent(lastEvent)
    IN /\ ~Falsy(t) => t \notin DOMAIN userChunksByTurn
       /\ Cardinality(UserEntries(t)) = 1
       /\ \A i \in UserEntries(t) : messages[i].text = lastEvent.content

\* C19 (amended): the same for an event that names a turn; an event without a turn
\* identifier adds a new user entry holding its content at the end of the display.
C19_CounterlessReplacesTurn ==
  LastIsCounterless =>
    LET t == TurnIdOfEvent(lastEvent)
    IN IF ~Falsy(t)
         THEN /\ t \notin DOMAIN userChunksByTurn
              /\ Cardinality(UserEntries(t)) = 1
              /\ \A i \in UserEntries(t) : messages[i].text = lastEvent.content
         ELSE /\ Len(messages) > 0
              /\ messages[Len(messages)].role = "user"
              /\ messages[Len(messages)].turnId = Undefined
              /\ messages[Len(messages)].text = lastEvent.content

C19_Witness ==
  /\ LastIsCounterless /\ ~HasCounter(lastEvent)
  /\ ~Falsy(TurnIdOfEvent(lastEvent)) /\ nClient = 3
  /\ \E i \in UserEntries(TurnIdOfEvent(lastEvent)) :
       /\ i < Len(messages) /\ messages[Len(messages)].role = "assistant"
       /\ messages[i].text = lastEvent.content

\* C20 (as claimed): a turn.end naming a turn discards its buffer, and once a
\* counter-bearing delta of the turn arrives afterwards the displayed user text of the
\* turn is the concatenation, by ascending counter, of the deltas received since the
\* turn end and of nothing received before it.
C20_FreshBufferAfterTurnEnd ==
  \A t \in DOMAIN ended :
    IF t \notin DOMAIN recv
      THEN t \notin DOMAIN userChunksByTurn
      ELSE /\ UserEntries(t) # {}
           /\ \A i \in UserEntries(t) :
                messages[i].text = ConcatByCounter(recv[t], CountersOf(recv[t]))

\* C20 (amended): the same, for deltas after the turn end whose counters are pairwise
\* distinct.
C20_FreshBufferDistinct ==
  \A t \in DOMAIN ended :
    IF t \notin DOMAIN recv
      THEN t \notin DOMAIN userChunksByTurn
      ELSE /\ DOMAIN userChunksByTurn[t] = CountersOf(recv[t])
           /\ Cardinality(CountersOf(recv[t])) = Len(recv[t]) =>
                /\ Cardinality(UserEntries(t)) = 1
                /\ \A i \in UserEntries(t) :
                     messages[i].text = ConcatByCounter(recv[t], CountersOf(recv[t]))

C20_Witness ==
  \E t \in DOMAIN ended :
    /\ Len(ended[t]) = 1 /\ t \in DOMAIN recv /\ Len(recv[t]) = 1
    /\ ended[t][1].text # recv[t][1].text
    /\ ended[t][1].counter < recv[t][1].counter
    /\ \E i \in UserEntries(t) : messages[i].text = recv[t][1].text

AssistantEntries(turnId) ==
  {i \in 1..Len(messages) : messages[i].turnId = turnId /\ messages[i].role = "assistant"}

\* the step in which the client handles a response.text event
ResponseTextStep == nClient' = nClient + 1 /\ lastEvent'.type = "response.text"

\* the display after the step is the display before it with one assistant entry
\* holding the content of the event added at its end
AppendedAsNewEntry ==
  /\ Len(messages') = Len(messages) + 1
  /\ SubSeq(messages', 1, Len(messages)) = messages
  /\ messages'[Len(messages')].role = "assistant"
  /\ messages'[Len(messages')].text = lastEvent'.content
  /\ messages'[Len(messages')].turnId = TurnIdOfEvent(lastEvent')

\* C21 (as claimed): every response.text event adds one new entry to the display and
\* is never merged into an entry already displayed, also when an assistant entry of
\* the same turn identifier is displayed.
C21_AssistantAppended == [][ResponseTextStep => AppendedAsNewEntry]_vars

\* C21 (amended): a response.text event adds one new entry to the display unless an
\* assistant entry of its turn identifier is already displayed; in that case the
\* number of entries stays the same and the content of the event is appended to the
\* text of that entry.
C21_AssistantAppendedOrExtended ==
  [][ResponseTextStep =>
       LET t == TurnIdOfEvent(lastEvent')
       IN IF Falsy(t) \/ AssistantEntries(t) = {}
            THEN AppendedAsNewEntry
            ELSE \E i \in AssistantEntries(t) :
                   messages' = [messages EXCEPT ![i].text = @ \o lastEvent'.content]]_vars

C21_Witness ==
  /\ lastEvent.type = "response.text" /\ ~Falsy(TurnIdOfEvent(lastEvent))
  /\ Cardinality(AssistantEntries(TurnIdOfEvent(lastEvent))) = 1
  /\ \E i \in AssistantEntries(TurnIdOfEvent(lastEvent)) :
       /\ Len(messages[i].text) = 2
       /\ SubSeq(messages[i].text, 2, 2) = lastEvent.content

\* C22: no retries. An invocation issues at most one text-generation call, and only
\* for a validly signed message event; it performs each of its store operations at
\* most once; and once its generation call or one of its store operations has failed
\* it issues nothing further.
C22_NoRetries ==
  [][\A s \in Slots :
       /\ inv'[s].genCalls <= 1
       /\ inv'[s].genCalls = 1 =>
            inv'[s].isValid /\ inv'[s].requestBody.type = "message"
       /\ \A tag \in Range(inv'[s].trace) :
            Cardinality(Positions(inv'[s].trace, tag)) = 1
       /\ (inv[s].failure # "none" /\ inv'[s].ev = inv[s].ev) =>
            /\ inv'[s].pc = "done"
            /\ inv'[s].trace = inv[s].trace
            /\ inv'[s].genCalls = inv[s].genCalls]_vars

C22_Witness ==
  \E s, t \in Slots :
    /\ inv[s].pc = "done" /\ inv[s].failure \in GenErrors /\ inv[s].genCalls = 1
    /\ inv[t].pc = "done" /\ inv[t].failure = "kv unreachable"
    /\ inv[t].requestBody.type = "session.start" /\ inv[t].genCalls = 0

UserCount(log) == Cardinality({i \in 1..Len(log) : log[i].role = "user"})

\* the step in which invocation s performs the append of route.ts:144
AppendsUser(s) ==
  /\ inv'[s].ev = inv[s].ev
  /\ "append_user" \notin Range(inv[s].trace)
  /\ "append_user" \in Range(inv'[s].trace)

\* C23: every validly signed event, whatever its type, appends exactly one user
\* Message whose id is the turn identifier of the event and whose text is the text of
\* the event to the log of its conversation; the append comes after the reset of a
\* session.start event and before the dispatch on the type, and no other step adds
\* a user Message.
C23_OneUserAppend ==
  [][/\ \A s \in Slots :
          /\ AppendsUser(s) =>
               /\ inv[s].isValid
               /\ \A c \in Keys : c = ConvOf(s) =>
                    LogNext(c) = Append(Log(c),
                      [id |-> inv[s].requestBody.turn_id, role |-> "user",
                       conversation_id |-> c, text |-> inv[s].requestBody.text,
                       ev |-> inv[s].ev])
          /\ (inv'[s].isValid /\ "dispatch" \in Range(inv'[s].trace)) =>
               /\ \E i \in Positions(inv'[s].trace, "append_user") :
                    /\ Positions(inv'[s].trace, "append_user") = {i}
                    /\ \A j \in Positions(inv'[s].trace, "dispatch") : i < j
                    /\ \A j \in Positions(inv'[s].trace, "reset") : j < i
               /\ inv'[s].requestBody.type = "session.start" =>
                    "reset" \in Range(inv'[s].trace)
          /\ (inv'[s].isValid /\ inv'[s].pc = "done") =>
               "dispatch" \in Range(inv'[s].trace)
     /\ (\A s \in Slots : ~AppendsUser(s)) =>
          \A c \in Keys : UserCount(LogNext(c)) <= UserCount(Log(c))]_vars

C23_Witness ==
  \E s \in Slots :
    /\ inv[s].pc = "done" /\ inv[s].isValid
    /\ inv[s].requestBody.type = "session.start"
    /\ inv[s].trace = <<"reset", "get", "append_user", "dispatch", "append_welcome", "tts", "end">>
    /\ \E i \in 1..Len(Log(ConvOf(s))) :
         /\ Log(ConvOf(s))[i].role = "user"
         /\ Log(ConvOf(s))[i].id = inv[s].requestBody.turn_id
         /\ Log(ConvOf(s))[i].text = inv[s].requestBody.text

\* C24: every response stream the handler has opened is closed once the invocation
\* has come to its end, on the failure paths too: a generation call that fails or is
\* never issued (missing API key), a welcome-Message append that fails.
C24_ClosedOnAllPaths ==
  \A s \in Slots :
    (inv[s].pc = "done" /\ inv[s].streamOpened) => inv[s].streamEnds >= 1

\* C25: chunk buffers are destroyed on turn end and on disconnect. Right after a
\* turn.end event naming turn t the buffer map has no entry for t; right after a
\* disconnect, and right after an accepted connect click, it has no entry at all.
C25_BuffersDestroyed ==
  [][/\ (nClient' = nClient + 1 /\ lastEvent'.type = "turn.end"
           /\ lastEvent'.turn_id.kind # "absent") =>
          StringOf(lastEvent'.turn_id) \notin DOMAIN userChunksByTurn'
     /\ (status = "connected" /\ status' = "disconnected") =>
          DOMAIN userChunksByTurn' = {}
     /\ (status # "connecting" /\ status' = "connecting") =>
          DOMAIN userChunksByTurn' = {}]_vars

C25_Witness ==
  /\ status = "disconnected" /\ nClient = 2
  /\ DOMAIN userChunksByTurn = {}
  /\ Cardinality({i \in 1..Len(messages) :
                    messages[i].role = "user" /\ Len(messages[i].chunks) > 0}) = 2

\* C26: once a session.start invocation has reset the log of a conversation, the
\* log holds no Message of an invocation that was received before that reset; the
\* assistant Message of a message invocation in flight at the reset is not appended
\* to the log of the new session. (resetDuring marks the invocations received before
\* a reset of their conversation; for one that is not a session.start the reset was
\* another invocation's.)
C26_NoStaleMessageAfterReset ==
  \A t \in Slots :
    (inv[t].resetDuring /\ inv[t].requestBody.type # "session.start") =>
      \A i \in 1..Len(Log(ConvOf(t))) : Log(ConvOf(t))[i].ev # inv[t].ev

\* the pairs of positions of the log of c that hold Messages of the same id
SameId(c) ==
  {p \in (1..Len(Log(c))) \X (1..Len(Log(c))) :
     p[1] < p[2] /\ Log(c)[p[1]].id = Log(c)[p[2]].id}

\* C28 (as claimed): after validly signed events with pairwise distinct turn
\* identifiers no two Messages in the log of one conversation have the same id, the
\* user Message and the welcome Message of one session.start event included.
C28_UniqueIds == \A c \in Keys : SameId(c) = {}

\* C28 (amended): two Messages in the log of one conversation have the same id only
\* when they are the user Message and the welcome Message written by one
\* session.start event, whose id is the turn identifier of that event.
C28_UniqueIdsButWelcome ==
  \A c \in Keys : \A p \in SameId(c) :
    LET first == Log(c)[p[1]]
        second == Log(c)[p[2]]
    IN /\ first.ev = second.ev
       /\ first.role = "user" /\ second.role = "assistant"
       /\ second.text = WELCOME_MESSAGE
       /\ \E n \in 1..nEvents : first.id = TurnIdOf(n) /\ first.ev = n

C28_Witness ==
  \E c \in Keys :
    /\ Cardinality(SameId(c)) = 1
    /\ Len(Log(c)) = 5
    /\ \E i \in 1..Len(Log(c)) : Log(c)[i].role = "assistant" /\ Log(c)[i].text = "generated"

\* the fragments of a buffer concatenated by ascending counter
RECURSIVE ConcatAscending(_, _)
ConcatAscending(turnMap, counters) ==
  IF counters = {} THEN ""
  ELSE turnMap[Min(counters)] \o ConcatAscending(turnMap, counters \ {Min(counters)})

\* C29: for every turn that has a buffer the display holds a user entry of that turn
\* whose text is the concatenation of the buffered fragments by ascending counter;
\* a delta whose counter is already buffered has overwritten that fragment, and the
\* displayed text is the recomputed value, not the old text with something appended.
C29_DisplayMatchesBuffer ==
  /\ \A t \in DOMAIN userChunksByTurn :
       /\ UserEntries(t) # {}
       /\ \A i \in UserEntries(t) :
            messages[i].text =
              ConcatAscending(userChunksByTurn[t], DOMAIN userChunksByTurn[t])
  /\ (lastEvent.type \in DeltaTypes /\ ~LastIsCounterless) =>
       /\ TurnIdOfEvent(lastEvent) \in DOMAIN userChunksByTurn
       /\ CounterOfEvent(lastEvent) \in DOMAIN userChunksByTurn[TurnIdOfEvent(lastEvent)]
       /\ userChunksByTurn[TurnIdOfEvent(lastEvent)][CounterOfEvent(lastEvent)]
            = lastEvent.content

C29_Witness ==
  \E t \in DOMAIN userChunksByTurn :
    /\ t \in DOMAIN recv /\ Len(recv[t]) = 3
    /\ Cardinality(DOMAIN userChunksByTurn[t]) = 2
    /\ recv[t][1].counter = recv[t][3].counter /\ recv[t][1].text # recv[t][3].text
    /\ recv[t][1].counter > recv[t][2].counter
    /\ \E i \in UserEntries(t) :
         messages[i].text = recv[t][2].text \o recv[t][3].text

\* the role of the display entry an event is about
RoleOfEvent(event) == IF event.type = "response.text" THEN "assistant" ELSE "user"

\* the positions of the display entries of a pair (turn identifier, role)
EntriesOf(list, turnId, role) ==
  {i \in 1..Len(list) : list[i].turnId = turnId /\ list[i].role = role}

\* C30: among the entries that carry a turn identifier the display holds at most
\* one per pair (turn identifier, role); an event for a pair already displayed
\* leaves the length of the display, the position of that entry and every other
\* entry as they were.
C30_OneEntryPerPair ==
  [][/\ \A i, j \in 1..Len(messages') :
          (i < j /\ ~Falsy(messages'[i].turnId)) =>
            ~(/\ messages'[i].turnId = messages'[j].turnId
              /\ messages'[i].role = messages'[j].role)
     /\ (nClient' = nClient + 1
           /\ lastEvent'.type \in DeltaTypes \cup {"response.text"}
           /\ ~Falsy(TurnIdOfEvent(lastEvent'))) =>
          LET t == TurnIdOfEvent(lastEvent')
              role == RoleOfEvent(lastEvent')
              shown == EntriesOf(messages, t, role)
          IN shown # {} =>
               /\ Len(messages') = Len(messages)
               /\ EntriesOf(messages', t, role) = shown
               /\ \A i \in (1..Len(messages)) \ shown : messages'[i] = messages[i]]_vars

C30_Witness ==
  /\ lastEvent.type \in DeltaTypes /\ HasCounter(lastEvent)
  /\ ~Falsy(TurnIdOfEvent(lastEvent))
  /\ TurnIdOfEvent(lastEvent) \in DOMAIN recv
  /\ Len(recv[TurnIdOfEvent(lastEvent)]) = 2
  /\ Cardinality(EntriesOf(messages, TurnIdOfEvent(lastEvent), "user")) = 1
  /\ \E i \in EntriesOf(messages, TurnIdOfEvent(lastEvent), "user") :
       /\ i < Len(messages)
       /\ messages[Len(messages)].role = "assistant"
       /\ messages[Len(messages)].turnId = TurnIdOfEvent(lastEvent)

====
